---- MODULE Spec2Model ----
(***************************************************************************)
(* A state-machine model of train.py: main() -> model_train(args) -> the   *)
(* basis-decomposition analysis at the end of main().                      *)
(*                                                                         *)
(* Tensors produced by the network are kept symbolically: the rows of an   *)
(* output snapshot are described by segments [lo, hi, ver], "the outputs   *)
(* for validation examples lo..hi-1, in loader order, computed with the    *)
(* parameters after ver optimizer steps".  The analysis code of main() is  *)
(* also run on small concrete matrices (specification SpecAn), with exact  *)
(* rationals standing for the floats and IEEE results for x/0.             *)
(***************************************************************************)
EXTENDS Integers, Sequences, FiniteSets, TLC

VARIABLES
    args,         \* the parsed command line (arg_parser)
    pc,           \* position in main()/model_train()
    err,          \* the exception that ended the run, [exc, line]
    train_loader, \* model_train local
    val_loader,   \* model_train local
    shape,        \* num_chann, num_classes, pic_size (info)
    model,        \* the nn.Module: architecture, parameter version, hooks
    handle,       \* the hook handle returned by register_forward_hook
    features,     \* the module-level dict written by the hook
    epoch,        \* loop variable of "for epoch in range(EPOCH)"
    b,            \* index of the next batch of the loader being iterated
    i,            \* loop variable of "for i in range(...)"
    f_out,        \* rows stacked so far by the running evaluation pass
    init_f_out,   \* result of initial_test
    F_out,        \* the output history, a sequence of slices (epoch axis)
    FEATS,        \* per-batch captures of the last evaluation pass
    phi,          \* captured feature matrix
    beta,         \* final linear layer's weight
    metrics,      \* train_loss, train_acc, test_acc_, grad_norm
    num_batch,    \* len(val_loader), set by the evaluation pass
    hist,         \* history counters: what has been called how often
    an            \* locals of the analysis in main(): U, V, beta_star, Coe, ...

vars == <<args, pc, err, train_loader, val_loader, shape, model, handle,
          features, epoch, b, i, f_out, init_f_out, F_out, FEATS, phi, beta,
          metrics, num_batch, hist, an>>

loaders == <<train_loader, val_loader, shape>>

capt == <<handle, features, FEATS, phi, beta>>

evalv == <<f_out, init_f_out, F_out, num_batch>>

loopv == <<epoch, b, i>>

(***************************************************************************)
(* Bounds of the model and the inputs it enumerates.                       *)
(***************************************************************************)
MaxEpoch == 2

DataIds == {"Mnist", "Cifar10", "Cifar100", "Imagenet", "Svhn"}

ModelIds == {"resnet18", "vgg11", "alexnet", "vit", "fc-relu",
             "vision-transformer", "lenet"}

BatchSizes == {512, 4096}

\* batch size of the validation loader when --gradient is given
GRADIENT_BATCH == 24

\* rows of torch.zeros((10000, num_classes, 1))
F_ROWS == 10000

(***************************************************************************)
(* Values.                                                                 *)
(***************************************************************************)
NoErr == [exc |-> "none", line |-> 0]

Raise(exc, line) == [exc |-> exc, line |-> line]

NoLoader == [bound |-> FALSE, n |-> 0, bs |-> 1, shuffle |-> FALSE,
             split |-> "none", data |-> "none"]

NoShape == [bound |-> FALSE, num_chann |-> 0, num_classes |-> 0, pic_size |-> 0]

\* a 2-D tensor; kind "sym": rows described by segs, kind "zeros": all zero,
\* kind "num": the concrete matrix m (a sequence of rows)
Tensor(kind, rows, cols, segs, m) ==
    [kind |-> kind, rows |-> rows, cols |-> cols, segs |-> segs, m |-> m]

Unset == Tensor("unset", 0, 0, <<>>, <<>>)

Min(x, y) == IF x <= y THEN x ELSE y

CeilDiv(x, y) == (x + y - 1) \div y

(***************************************************************************)
(* Dataset provider: load_train_data, load_test_data, info.                *)
(***************************************************************************)
\* number of examples of the torchvision / datasets split a branch builds
\* (the dataset constructors themselves are taken to succeed)
SplitSize(dataset, split) ==
    CASE dataset = "Mnist"    -> IF split = "train" THEN 60000 ELSE 10000
      [] dataset = "Cifar10"  -> IF split = "train" THEN 50000 ELSE 10000
      [] dataset = "Cifar100" -> IF split = "train" THEN 50000 ELSE 10000
      [] dataset = "Imagenet" -> IF split = "train" THEN 1281167 ELSE 50000
      [] OTHER                -> 0

Loader(dataset, split, batch_size, shuffle) ==
    [bound |-> TRUE, n |-> SplitSize(dataset, split), bs |-> batch_size,
     shuffle |-> shuffle, split |-> split, data |-> dataset]

\* the result of a call: a value or an exception
Ok(v) == [ok |-> TRUE, val |-> v, exc |-> NoErr]

Fail(v, exc, line) == [ok |-> FALSE, val |-> v, exc |-> Raise(exc, line)]

\* every dataset branch binds train_set; no branch, no binding: the
\* DataLoader call then reads an unbound local
load_train_data(batch_size, dataset, model_id) ==
    IF dataset \in {"Mnist", "Cifar10", "Cifar100", "Imagenet"}
    THEN IF model_id = "vit"
         THEN Ok(Loader(dataset, "train", batch_size, FALSE))
         ELSE Ok(Loader(dataset, "train", batch_size, TRUE))
    ELSE Fail(NoLoader, "UnboundLocalError", IF model_id = "vit" THEN 296 ELSE 302)

\* the Imagenet branch binds train_set, not test_set
load_test_data_binds(dataset) == dataset \in {"Mnist", "Cifar10", "Cifar100"}

load_test_data(batch_size, dataset, model_id) ==
    IF load_test_data_binds(dataset)
    THEN Ok(Loader(dataset, "test", batch_size, FALSE))
    ELSE Fail(NoLoader, "UnboundLocalError", IF model_id = "vit" THEN 406 ELSE 412)

info(data) ==
    CASE data = "Mnist"    -> Ok([bound |-> TRUE, num_chann |-> 1, num_classes |-> 10, pic_size |-> 28])
      [] data = "Cifar100" -> Ok([bound |-> TRUE, num_chann |-> 3, num_classes |-> 100, pic_size |-> 32])
      [] data = "Imagenet" -> Ok([bound |-> TRUE, num_chann |-> 3, num_classes |-> 1000, pic_size |-> 256])
      [] data = "Cifar10"  -> Ok([bound |-> TRUE, num_chann |-> 3, num_classes |-> 10, pic_size |-> 32])
      [] OTHER             -> Fail(NoShape, "TypeError", 477)

\* len(loader)
LoaderLen(loader) == CeilDiv(loader.n, loader.bs)

\* the k-th batch (0-based) of an unshuffled loader: examples lo..hi-1
BatchLo(loader, k) == k * loader.bs

BatchHi(loader, k) == Min(loader.n, (k + 1) * loader.bs)

(***************************************************************************)
(* Architecture factory: load_architecture.                                *)
(***************************************************************************)
\* the identifiers of the if/elif chain; any other falls off its end
BuiltArchs ==
    {"fc-relu", "fc-elu", "fc-tanh", "fc-hardtanh", "fc-softplus",
     "cnn-relu", "cnn-elu", "cnn-tanh", "cnn-avgpool-relu", "cnn-avgpool-elu",
     "cnn-avgpool-tanh", "cnn-bn-relu", "cnn-bn-elu", "cnn-bn-tanh",
     "fc-tanh-depth1", "fc-tanh-depth2", "fc-tanh-depth3", "fc-tanh-depth4",
     "resnet18", "resnet50", "vgg11", "alexnet", "vit", "wide-resnet", "swim-net"}

NoModel == [arch |-> "None", ver |-> 0, hooks |-> {}, training |-> TRUE]

\* (mutant) a closing else branch that builds a default network
load_architecture_WithDefault(arch_id) ==
    [arch |-> IF arch_id \in BuiltArchs THEN arch_id ELSE "resnet18",
     ver |-> 0, hooks |-> {}, training |-> TRUE]

load_architecture(arch_id) ==
    IF arch_id \in BuiltArchs
    THEN [arch |-> arch_id, ver |-> 0, hooks |-> {}, training |-> TRUE]
    ELSE NoModel

\* names of the top-level modules (model._modules), in registration order
TopLevelModules(arch) ==
    CASE arch = "fc-relu"  -> <<"0", "1", "2", "3", "4", "5">>
      [] arch = "resnet18" -> <<"conv1", "bn1", "relu", "maxpool", "layer1", "layer2",
                                "layer3", "layer4", "avgpool", "fc">>
      [] arch = "vgg11"    -> <<"features", "avgpool", "classifier">>
      [] arch = "alexnet"  -> <<"features", "avgpool", "classifier">>
      [] arch = "vit"      -> <<"conv_proj", "encoder", "heads">>
      [] OTHER             -> <<"body", "head">>

\* width of the flattened output of a layer
LayerWidth(arch, layer) ==
    CASE arch = "fc-relu"  /\ layer = "4"             -> 200
      [] arch = "resnet18" /\ layer = "avgpool"       -> 512
      [] arch = "vgg11"    /\ layer = "classifier[5]" -> 4096
      [] arch = "alexnet"  /\ layer = "classifier[5]" -> 4096
      [] arch = "vit"      /\ layer = "encoder"       -> 197 * 768
      [] arch = "vit"      /\ layer = "encoder.ln"    -> 197 * 768
      [] OTHER                                        -> 64

\* columns of the weight of the final linear layer
HeadWidth(arch) ==
    CASE arch = "fc-relu"  -> 200
      [] arch = "resnet18" -> 512
      [] arch = "vgg11"    -> 4096
      [] arch = "alexnet"  -> 4096
      [] arch = "vit"      -> 768
      [] OTHER             -> 64

(***************************************************************************)
(* Symbolic tensors of the training loop.                                  *)
(***************************************************************************)
Seg(lo, hi, ver, of) == [lo |-> lo, hi |-> hi, ver |-> ver, of |-> of]

\* rows a..b of one computation followed by rows b..c of the same one are
\* rows a..c of it
Joins(s, t) == s.hi = t.lo /\ s.ver = t.ver /\ s.of = t.of

AppendSeg(segs, t) ==
    IF Len(segs) > 0 /\ Joins(segs[Len(segs)], t)
    THEN [segs EXCEPT ![Len(segs)] = Seg(segs[Len(segs)].lo, t.hi, t.ver, t.of)]
    ELSE Append(segs, t)

\* torch.empty((0, cols))
Empty(cols) == Tensor("sym", 0, cols, <<>>, <<>>)

\* torch.zeros((rows, cols))
Zeros(rows, cols) == Tensor("zeros", rows, cols, <<>>, <<>>)

\* (mutant) the new rows are put in front of the rows stacked so far
VStack_Reversed(t, o) ==
    Tensor("sym", t.rows + o.rows, t.cols, <<o.segs[1]>> \o t.segs, <<>>)

\* torch.vstack((t, o)) for a one-segment o of the same width
VStack(t, o) ==
    Tensor("sym", t.rows + o.rows, t.cols, AppendSeg(t.segs, o.segs[1]), <<>>)

\* outputs = model(inputs) on the k-th batch of an unshuffled loader
Forward(m, loader, k, num_classes) ==
    Tensor("sym", BatchHi(loader, k) - BatchLo(loader, k), num_classes,
           <<Seg(BatchLo(loader, k), BatchHi(loader, k), m.ver, "logits")>>, <<>>)

\* what the forward hook stores in features[name]: the hooked layer's output
\* for the batch (flattened to 2-D when Phi is assembled)
HookOutput(m, loader, k, layer) ==
    Tensor("sym", BatchHi(loader, k) - BatchLo(loader, k), LayerWidth(m.arch, layer),
           <<Seg(BatchLo(loader, k), BatchHi(loader, k), m.ver, layer)>>, <<>>)

\* features after a forward pass: every installed hook fires
AfterForward(m, loader, k, feats) ==
    IF m.hooks = {} THEN feats
    ELSE HookOutput(m, loader, k, CHOOSE l \in m.hooks : TRUE)

\* the layer-selection chain of model_train
ExplicitCaptureIds == {"vgg11", "alexnet", "vision-transformer"}

SecondToLast(arch) == TopLevelModules(arch)[Len(TopLevelModules(arch)) - 1]

\* (mutant) no fallback branch: every other identifier gets classifier[5]
CaptureLayer_NoFallback(model_name, arch) ==
    IF model_name = "vision-transformer" THEN "encoder.ln" ELSE "classifier[5]"

CaptureLayer(model_name, arch) ==
    IF model_name = "vgg11" \/ model_name = "alexnet" THEN "classifier[5]"
    ELSE IF model_name = "vision-transformer" THEN "encoder.ln"
    ELSE SecondToLast(arch)

\* (mutant) the guard taken in every epoch
IsLastEpoch_EveryEpoch(e, EPOCH) == TRUE

\* the test "epoch == EPOCH - 1" guarding registration, capture and removal
IsLastEpoch(e, EPOCH) == e = EPOCH - 1

\* the weight of the last linear layer, read from state_dict()
HeadWeight(m, num_classes) ==
    Tensor("sym", num_classes, HeadWidth(m.arch),
           <<Seg(0, num_classes, m.ver, "weight")>>, <<>>)

\* torch.cat([F, unsqueeze(f, 2)], dim=2) is defined when the other axes agree
CanCat(F, f) == F[1].rows = f.rows /\ F[1].cols = f.cols

\* (mutant) the new slice is written over the last one
Cat_ReplaceLast(F, f) == [F EXCEPT ![Len(F)] = f]

\* torch.cat([F_out, torch.unsqueeze(f_out, 2)], dim=2)
Cat(F, f) == Append(F, f)

\* (mutant) the norm is recorded whether or not --gradient is given
RecordGradNorm_Always(g, gradient, x) == Append(g, x)

\* grad_norm.append(...), a statement of the --gradient branch only
RecordGradNorm(g, gradient, x) == IF gradient THEN Append(g, x) ELSE g

\* (mutant) the epoch-0 slice is left as allocated
SetSlice0_Skipped(F, init) == F

\* F_out[:, :, 0] = init
SetSlice0(F, init) == [F EXCEPT ![1] = init]

(***************************************************************************)
(* Scalars of the analysis.  A float is an exact rational [k |-> "rat"],   *)
(* a NaN, an infinity, or, for a value the network computed, unknown       *)
(* ("sym").  Division follows IEEE 754: x/0 is an infinity, 0/0 a NaN.     *)
(***************************************************************************)
Abs(x) == IF x < 0 THEN -x ELSE x

RECURSIVE Gcd(_, _)
Gcd(x, y) == IF y = 0 THEN x ELSE Gcd(y, x % y)

Special(k) == [k |-> k, n |-> 0, d |-> 1]

NaN == Special("nan")

PInf == Special("pinf")

NInf == Special("ninf")

Sym == Special("sym")

\* n/d in lowest terms, d > 0
Rat(n, d) ==
    LET g == Gcd(Abs(n), Abs(d))
        sg == IF d < 0 THEN -1 ELSE 1
    IN  [k |-> "rat", n |-> sg * (n \div g), d |-> sg * (d \div g)]

R(n) == [k |-> "rat", n |-> n, d |-> 1]

IsInf(x) == x.k \in {"pinf", "ninf"}

IsZero(x) == x.k = "rat" /\ x.n = 0

Sign(x) == CASE x.k = "pinf" -> 1
             [] x.k = "ninf" -> -1
             [] x.k = "rat" /\ x.n > 0 -> 1
             [] x.k = "rat" /\ x.n < 0 -> -1
             [] OTHER -> 0

InfOf(sg) == IF sg > 0 THEN PInf ELSE NInf

SAdd(x, y) ==
    CASE x.k = "nan" \/ y.k = "nan"   -> NaN
      [] x.k = "sym" \/ y.k = "sym"   -> Sym
      [] IsInf(x) /\ IsInf(y)         -> IF x.k = y.k THEN x ELSE NaN
      [] IsInf(x)                     -> x
      [] IsInf(y)                     -> y
      [] OTHER                        -> Rat(x.n * y.d + y.n * x.d, x.d * y.d)

SMul(x, y) ==
    CASE x.k = "nan" \/ y.k = "nan"   -> NaN
      [] x.k = "sym" \/ y.k = "sym"   -> Sym
      [] IsInf(x) \/ IsInf(y)         -> IF Sign(x) * Sign(y) = 0 THEN NaN
                                         ELSE InfOf(Sign(x) * Sign(y))
      [] OTHER                        -> Rat(x.n * y.n, x.d * y.d)

SDiv(x, y) ==
    CASE x.k = "nan" \/ y.k = "nan"   -> NaN
      [] x.k = "sym" \/ y.k = "sym"   -> Sym
      [] IsInf(x) /\ IsInf(y)         -> NaN
      [] IsInf(y)                     -> R(0)
      [] IsZero(y)                    -> IF Sign(x) = 0 THEN NaN ELSE InfOf(Sign(x))
      [] IsInf(x)                     -> InfOf(Sign(x) * Sign(y))
      [] OTHER                        -> Rat(x.n * y.d, x.d * y.n)

(***************************************************************************)
(* Matrices of the analysis.  Kind "num": m is a sequence of rows of       *)
(* integers; kind "rat": of scalars; kinds "sym"/"zeros": shape only.      *)
(***************************************************************************)
Num(rows, cols, m) == Tensor("num", rows, cols, <<>>, m)

SymT(rows, cols) == Tensor("sym", rows, cols, <<>>, <<>>)

RECURSIVE SumTo(_, _)
\* f[1] + ... + f[n], integers
SumTo(f, n) == IF n = 0 THEN 0 ELSE SumTo(f, n - 1) + f[n]

RECURSIVE SSumTo(_, _)
\* f[1] + ... + f[n], scalars
SSumTo(f, n) == IF n = 0 THEN R(0) ELSE SAdd(SSumTo(f, n - 1), f[n])

\* torch.matmul / mm of two 2-D tensors whose inner dimensions agree
MatMul(A, B) ==
    IF A.kind = "num" /\ B.kind = "num"
    THEN Num(A.rows, B.cols,
             [r \in 1..A.rows |-> [c \in 1..B.cols |->
                 SumTo([k \in 1..A.cols |-> A.m[r][k] * B.m[k][c]], A.cols)]])
    ELSE SymT(A.rows, B.cols)

CanMatMul(A, B) == A.cols = B.rows

\* T[:, i] for a 0-based i
Column(T, idx) ==
    IF T.kind = "num" THEN [r \in 1..T.rows |-> T.m[r][idx + 1]] ELSE <<>>

\* torch.outer(a, b) of a = A[:, i], b = B[:, i]
Outer(A, B, idx) ==
    IF A.kind = "num" /\ B.kind = "num"
    THEN Num(A.rows, B.rows,
             [r \in 1..A.rows |-> [c \in 1..B.rows |->
                 Column(A, idx)[r] * Column(B, idx)[c]]])
    ELSE SymT(A.rows, B.rows)

\* torch.trace(u.t().mm(u))
TraceGram(u) ==
    IF u.kind = "num"
    THEN R(SumTo([c \in 1..u.cols |->
                    SumTo([r \in 1..u.rows |-> u.m[r][c] * u.m[r][c]], u.rows)],
                 u.cols))
    ELSE Sym

\* u / s
DivBy(u, s) ==
    IF u.kind = "num"
    THEN Tensor("rat", u.rows, u.cols, <<>>,
                [r \in 1..u.rows |-> [c \in 1..u.cols |-> SDiv(R(u.m[r][c]), s)]])
    ELSE SymT(u.rows, u.cols)

\* (mutant) the first diagonal entry of f.mm(u) in place of its trace
TraceProd_Corner(f, u) ==
    IF f.kind = "num" /\ u.kind = "rat"
    THEN SSumTo([k \in 1..f.cols |-> SMul(R(f.m[1][k]), u.m[k][1])], f.cols)
    ELSE Sym

\* torch.trace(f.mm(u)), f an F_out slice
TraceProd(f, u) ==
    IF f.kind = "num" /\ u.kind = "rat"
    THEN SSumTo([r \in 1..f.rows |->
                   SSumTo([k \in 1..f.cols |-> SMul(R(f.m[r][k]), u.m[k][r])], f.cols)],
                f.rows)
    ELSE Sym

\* f.mm(u) is defined and square
CanTraceProd(f, u) == f.cols = u.rows /\ f.rows = u.cols

(***************************************************************************)
(* torch.svd(Phi), reduced: U is n x r, V is d x r, r = min(n, d).         *)
(* Computed for matrices whose first r columns each hold one positive      *)
(* entry, in distinct rows and of non-increasing size, the others being    *)
(* zero: then U[:, j] is the unit vector of that row and V[:, j] the unit  *)
(* vector of column j.  Any other Phi gives a result known by shape only.  *)
(***************************************************************************)
SvdRank(t) == Min(t.rows, t.cols)

PivotRow(t, j) == CHOOSE r \in 1..t.rows : t.m[r][j] # 0

SvdU(t) ==
    IF t.kind = "num"
    THEN LET piv == [j \in 1..SvdRank(t) |-> PivotRow(t, j)]
         IN  Num(t.rows, SvdRank(t),
                 [r \in 1..t.rows |-> [j \in 1..SvdRank(t) |->
                     IF piv[j] = r THEN 1 ELSE 0]])
    ELSE SymT(t.rows, SvdRank(t))

SvdV(t) ==
    IF t.kind = "num"
    THEN Num(t.cols, SvdRank(t),
             [c \in 1..t.cols |-> [j \in 1..SvdRank(t) |-> IF c = j THEN 1 ELSE 0]])
    ELSE SymT(t.cols, SvdRank(t))

\* the number of basis directions the loop of main() walks
NUM_DIRS == 20

\* (mutant) the sample-variance divisor
NORM_DIV_OffByOne == F_ROWS - 1

\* the divisor of the normaliser
NORM_DIV == 10000

\* (mutant) a divisor that differs from the normaliser's
COE_DIV_OffByOne == F_ROWS - 1

\* the divisor of the coefficient
COE_DIV == 10000

NoAn == [U |-> Unset, V |-> Unset, beta_star |-> Unset, Coe |-> <<>>, Iter |-> 0,
         u |-> Unset, norm_u |-> R(0)]

(***************************************************************************)
(* Initial state: main() has parsed its arguments.                         *)
(***************************************************************************)
NoMetrics == [train_loss |-> <<>>, train_acc |-> <<>>, test_acc_ |-> <<>>,
              grad_norm |-> <<>>]

NoHist == [hookRegs |-> 0, hookRemoves |-> 0, phiAssigns |-> 0, betaAssigns |-> 0,
           schedSteps |-> 0, svdCalls |-> 0, evalPasses |-> 0, trainPasses |-> 0,
           files |-> <<>>]

Args == [model : ModelIds, data : DataIds, gradient : BOOLEAN,
         num_epoch : 1..MaxEpoch, batch_size : BatchSizes]

Init ==
    /\ args \in Args
    /\ pc = "load_train"
    /\ err = NoErr
    /\ train_loader = NoLoader
    /\ val_loader = NoLoader
    /\ shape = NoShape
    /\ model = NoModel
    /\ handle = "unbound"
    /\ features = Unset
    /\ epoch = 0
    /\ b = 0
    /\ i = 0
    /\ f_out = Unset
    /\ init_f_out = Unset
    /\ F_out = <<>>
    /\ FEATS = <<>>
    /\ phi = Unset
    /\ beta = Unset
    /\ metrics = NoMetrics
    /\ num_batch = 0
    /\ hist = NoHist
    /\ an = NoAn

\* an exception propagates out of main(): the run ends where it was raised
Abort(e) ==
    /\ err' = e
    /\ pc' = "error"

(***************************************************************************)
(* model_train: configuration.                                             *)
(***************************************************************************)
LoadTrainData ==
    /\ pc = "load_train"
    /\ LET r == load_train_data(args.batch_size, args.data, args.model)
       IN  IF r.ok
           THEN /\ train_loader' = r.val
                /\ pc' = "load_test"
                /\ UNCHANGED err
           ELSE /\ Abort(r.exc)
                /\ UNCHANGED train_loader
    /\ UNCHANGED <<args, val_loader, shape, model, capt, evalv, loopv, metrics, hist, an>>

LoadTestData ==
    /\ pc = "load_test"
    /\ LET bs == IF args.gradient THEN GRADIENT_BATCH ELSE args.batch_size
           r  == load_test_data(bs, args.data, args.model)
       IN  IF r.ok
           THEN /\ val_loader' = r.val
                /\ pc' = "info"
                /\ UNCHANGED err
           ELSE /\ Abort(r.exc)
                /\ UNCHANGED val_loader
    /\ UNCHANGED <<args, train_loader, shape, model, capt, evalv, loopv, metrics, hist, an>>

Info ==
    /\ pc = "info"
    /\ LET r == info(args.data)
       IN  IF r.ok
           THEN /\ shape' = r.val
                /\ pc' = "load_arch"
                /\ UNCHANGED err
           ELSE /\ Abort(r.exc)
                /\ UNCHANGED shape
    /\ UNCHANGED <<args, train_loader, val_loader, model, capt, evalv, loopv, metrics, hist, an>>

LoadArchitecture ==
    /\ pc = "load_arch"
    /\ model' = load_architecture(args.model)
    /\ pc' = "init_scale"
    /\ UNCHANGED <<args, err, loaders, capt, evalv, loopv, metrics, hist, an>>

\* init_scale calls model.state_dict(): None has no such attribute
InitScale ==
    /\ pc = "init_scale"
    /\ IF model.arch = "None"
       THEN Abort(Raise("AttributeError", 447))
       ELSE /\ pc' = "init_buffers"
            /\ UNCHANGED err
    /\ UNCHANGED <<args, loaders, model, capt, evalv, loopv, metrics, hist, an>>

\* loss, optimizer, schedulers, then the accumulators
InitBuffers ==
    /\ pc = "init_buffers"
    /\ F_out' = <<Zeros(F_ROWS, shape.num_classes)>>
    /\ metrics' = NoMetrics
    /\ pc' = "initial_test_begin"
    /\ UNCHANGED <<args, err, loaders, model, capt, f_out, init_f_out, num_batch,
                   loopv, hist, an>>

(***************************************************************************)
(* initial_test: the evaluation pass before the first training step.       *)
(***************************************************************************)
InitialTestBegin ==
    /\ pc = "initial_test_begin"
    /\ model' = [model EXCEPT !.training = FALSE]
    /\ f_out' = Empty(shape.num_classes)
    /\ num_batch' = LoaderLen(val_loader)
    /\ b' = 0
    /\ pc' = "initial_test"
    /\ UNCHANGED <<args, err, loaders, capt, init_f_out, F_out, epoch, i, metrics, hist, an>>

InitialTestStep ==
    /\ pc = "initial_test"
    /\ b < LoaderLen(val_loader)
    /\ features' = AfterForward(model, val_loader, b, features)
    /\ f_out' = VStack(f_out, Forward(model, val_loader, b, shape.num_classes))
    /\ b' = b + 1
    /\ UNCHANGED <<args, pc, err, loaders, model, handle, FEATS, phi, beta,
                   init_f_out, F_out, num_batch, epoch, i, metrics, hist, an>>

InitialTestReturn ==
    /\ pc = "initial_test"
    /\ b = LoaderLen(val_loader)
    /\ init_f_out' = f_out
    /\ epoch' = 0
    /\ pc' = "epoch"
    /\ UNCHANGED <<args, err, loaders, model, capt, f_out, F_out, num_batch, b, i,
                   metrics, hist, an>>

(***************************************************************************)
(* The epoch loop: training pass.                                          *)
(***************************************************************************)
\* for epoch in range(EPOCH): model.train()
EpochBegin ==
    /\ pc = "epoch"
    /\ IF epoch < args.num_epoch
       THEN /\ model' = [model EXCEPT !.training = TRUE]
            /\ b' = 0
            /\ pc' = "train"
       ELSE /\ pc' = "finish"
            /\ UNCHANGED <<model, b>>
    /\ UNCHANGED <<args, err, loaders, capt, evalv, epoch, i, metrics, hist, an>>

\* one batch: forward, loss, backward, optimizer.step()
TrainStep ==
    /\ pc = "train"
    /\ b < LoaderLen(train_loader)
    /\ features' = AfterForward(model, train_loader, b, features)
    /\ model' = [model EXCEPT !.ver = @ + 1]
    /\ b' = b + 1
    /\ UNCHANGED <<args, pc, err, loaders, handle, FEATS, phi, beta, evalv,
                   epoch, i, metrics, hist, an>>

TrainEpilogue ==
    /\ pc = "train"
    /\ b = LoaderLen(train_loader)
    /\ metrics' = [metrics EXCEPT
                     !.train_loss = Append(@, [epoch |-> epoch, ver |-> model.ver]),
                     !.train_acc  = Append(@, [epoch |-> epoch, ver |-> model.ver])]
    /\ hist' = [hist EXCEPT !.trainPasses = @ + 1]
    /\ pc' = "hook"
    /\ UNCHANGED <<args, err, loaders, model, capt, evalv, loopv, an>>

(***************************************************************************)
(* The epoch loop: validation phase and feature capture.                   *)
(***************************************************************************)
RegisterHook ==
    /\ pc = "hook"
    /\ IF IsLastEpoch(epoch, args.num_epoch)
       THEN LET layer == CaptureLayer(args.model, model.arch)
            IN  /\ model' = [model EXCEPT !.hooks = @ \cup {layer}]
                /\ handle' = layer
                /\ FEATS' = <<>>
                /\ hist' = [hist EXCEPT !.hookRegs = @ + 1]
       ELSE UNCHANGED <<model, handle, FEATS, hist>>
    /\ pc' = "eval_begin"
    /\ UNCHANGED <<args, err, loaders, features, phi, beta, evalv, loopv, metrics, an>>

EvalBegin ==
    /\ pc = "eval_begin"
    /\ model' = [model EXCEPT !.training = FALSE]
    /\ f_out' = Empty(shape.num_classes)
    /\ num_batch' = LoaderLen(val_loader)
    /\ b' = 0
    /\ pc' = "eval"
    /\ UNCHANGED <<args, err, loaders, capt, init_f_out, F_out, epoch, i, metrics, hist, an>>

\* one validation batch; in the last epoch the capture is appended to FEATS
EvalStep ==
    /\ pc = "eval"
    /\ b < LoaderLen(val_loader)
    /\ LET feats == AfterForward(model, val_loader, b, features)
       IN  /\ features' = feats
           /\ IF IsLastEpoch(epoch, args.num_epoch) /\ feats.kind = "unset"
              THEN /\ Abort(Raise("KeyError", IF args.gradient THEN 608 ELSE 628))
                   /\ UNCHANGED <<f_out, FEATS, b>>
              ELSE /\ f_out' = VStack(f_out, Forward(model, val_loader, b, shape.num_classes))
                   /\ FEATS' = IF IsLastEpoch(epoch, args.num_epoch)
                               THEN Append(FEATS, feats) ELSE FEATS
                   /\ b' = b + 1
                   /\ UNCHANGED <<pc, err>>
    /\ UNCHANGED <<args, loaders, model, handle, phi, beta, init_f_out, F_out,
                   num_batch, epoch, i, metrics, hist, an>>

\* F_out = torch.cat([F_out, f_out], dim=2), then the accuracy bookkeeping
EvalEnd ==
    /\ pc = "eval"
    /\ b = LoaderLen(val_loader)
    /\ IF CanCat(F_out, f_out)
       THEN /\ F_out' = Cat(F_out, f_out)
            /\ metrics' = [metrics EXCEPT
                  !.test_acc_ = Append(@, [epoch |-> epoch, ver |-> model.ver]),
                  !.grad_norm = RecordGradNorm(@, args.gradient,
                                               [epoch |-> epoch, ver |-> model.ver])]
            /\ hist' = [hist EXCEPT !.evalPasses = @ + 1]
            /\ pc' = "capture"
            /\ UNCHANGED err
       ELSE /\ Abort(Raise("RuntimeError", IF args.gradient THEN 610 ELSE 629))
            /\ UNCHANGED <<F_out, metrics, hist>>
    /\ UNCHANGED <<args, loaders, model, capt, f_out, init_f_out, num_batch, loopv, an>>

\* if epoch == EPOCH - 1: phi = flatten(FEATS[0])
CaptureBegin ==
    /\ pc = "capture"
    /\ IF IsLastEpoch(epoch, args.num_epoch)
       THEN IF Len(FEATS) = 0
            THEN /\ Abort(Raise("IndexError", 636))
                 /\ UNCHANGED <<phi, i, hist>>
            ELSE /\ phi' = FEATS[1]
                 /\ i' = 0
                 /\ hist' = [hist EXCEPT !.phiAssigns = @ + 1]
                 /\ pc' = "capture_loop"
                 /\ UNCHANGED err
       ELSE /\ pc' = "sched"
            /\ UNCHANGED <<err, phi, i, hist>>
    /\ UNCHANGED <<args, loaders, model, handle, features, FEATS, beta, evalv,
                   epoch, b, metrics, an>>

\* for i in range(num_batch - 1): phi = vstack((phi, flatten(FEATS[i + 1])))
CaptureStep ==
    /\ pc = "capture_loop"
    /\ i < num_batch - 1
    /\ IF i + 2 > Len(FEATS)
       THEN /\ Abort(Raise("IndexError", 639))
            /\ UNCHANGED <<phi, i>>
       ELSE /\ phi' = VStack(phi, FEATS[i + 2])
            /\ i' = i + 1
            /\ UNCHANGED <<pc, err>>
    /\ UNCHANGED <<args, loaders, model, handle, features, FEATS, beta, evalv,
                   epoch, b, metrics, hist, an>>

\* handle.remove(); beta = the last weight of the state dict
CaptureEnd ==
    /\ pc = "capture_loop"
    /\ i >= num_batch - 1
    /\ model' = [model EXCEPT !.hooks = @ \ {handle}]
    /\ beta' = HeadWeight(model, shape.num_classes)
    /\ hist' = [hist EXCEPT !.hookRemoves = @ + 1, !.betaAssigns = @ + 1]
    /\ pc' = "sched"
    /\ UNCHANGED <<args, err, loaders, handle, features, FEATS, phi, evalv, loopv,
                   metrics, an>>

\* scheduler.step(), the last statement of the loop body
SchedulerStep ==
    /\ pc = "sched"
    /\ hist' = [hist EXCEPT !.schedSteps = @ + 1]
    /\ epoch' = epoch + 1
    /\ pc' = "epoch"
    /\ UNCHANGED <<args, err, loaders, model, capt, evalv, b, i, metrics, an>>

\* F_out[:, :, 0] = init_f_out; return
Return ==
    /\ pc = "finish"
    /\ IF phi.kind = "unset" \/ beta.kind = "unset"
       THEN /\ Abort(Raise("UnboundLocalError", 647))
            /\ UNCHANGED F_out
       ELSE IF CanCat(F_out, init_f_out)
            THEN /\ F_out' = SetSlice0(F_out, init_f_out)
                 /\ pc' = "returned"
                 /\ UNCHANGED err
            ELSE /\ Abort(Raise("RuntimeError", 646))
                 /\ UNCHANGED F_out
    /\ UNCHANGED <<args, loaders, model, capt, f_out, init_f_out, num_batch, loopv,
                   metrics, hist, an>>

(***************************************************************************)
(* The environment: a forward pass or the Jacobian may raise (out of       *)
(* memory, a failing worker, ...).  Nothing in model_train catches it.     *)
(***************************************************************************)
ForwardLine ==
    CASE pc = "initial_test" -> 439
      [] pc = "train"        -> 550
      [] pc = "eval"         -> IF args.gradient THEN 602 ELSE 622
      [] OTHER               -> 0

ForwardRaises ==
    /\ \/ pc = "initial_test" /\ b < LoaderLen(val_loader)
       \/ pc = "train" /\ b < LoaderLen(train_loader)
       \/ pc = "eval" /\ b < LoaderLen(val_loader)
    /\ Abort(Raise("RuntimeError", ForwardLine))
    /\ UNCHANGED <<args, loaders, model, capt, evalv, loopv, metrics, hist, an>>

JacobianRaises ==
    /\ pc = "eval"
    /\ args.gradient
    /\ b < LoaderLen(val_loader)
    /\ Abort(Raise("RuntimeError", 609))
    /\ UNCHANGED <<args, loaders, model, capt, evalv, loopv, metrics, hist, an>>

(***************************************************************************)
(* main(): after model_train returns.                                      *)
(***************************************************************************)
Wrote(names) == [hist EXCEPT !.files = @ \o names]

\* os.makedirs(dir_name), then the three metric plots
PlotMetrics ==
    /\ pc = "returned"
    /\ hist' = Wrote(<<"train_loss", "train_loss.pdf", "train_acc", "train_acc.pdf",
                       "test_acc", "test_acc.pdf">>)
    /\ pc' = "grad_plot"
    /\ UNCHANGED <<args, err, loaders, model, capt, evalv, loopv, metrics, an>>

\* if args.gradient: keys = list(F_out.keys()) -- F_out is a tensor
GradPlot ==
    /\ pc = "grad_plot"
    /\ IF args.gradient
       THEN Abort(Raise("AttributeError", 771))
       ELSE /\ pc' = "svd"
            /\ UNCHANGED err
    /\ UNCHANGED <<args, loaders, model, capt, evalv, loopv, metrics, hist, an>>

(***************************************************************************)
(* main(): the basis-decomposition analysis.                               *)
(***************************************************************************)
\* U, _, V = torch.svd(Phi)
Svd ==
    /\ pc = "svd"
    /\ an' = [an EXCEPT !.U = SvdU(phi), !.V = SvdV(phi)]
    /\ hist' = [hist EXCEPT !.svdCalls = @ + 1]
    /\ pc' = "project"
    /\ UNCHANGED <<args, err, loaders, model, capt, evalv, loopv, metrics>>

\* beta_star = torch.matmul(beta, V); Coe = {}; _, _, Iter = F_out.shape
Project ==
    /\ pc = "project"
    /\ IF CanMatMul(beta, an.V)
       THEN /\ an' = [an EXCEPT !.beta_star = MatMul(beta, an.V),
                                !.Coe = <<>>,
                                !.Iter = Len(F_out)]
            /\ i' = 0
            /\ pc' = "dirs"
            /\ UNCHANGED err
       ELSE /\ Abort(Raise("RuntimeError", 798))
            /\ UNCHANGED <<an, i>>
    /\ UNCHANGED <<args, loaders, model, capt, evalv, epoch, b, metrics, hist>>

\* (mutant) the inner loop starts at epoch 1
Coefficients_SkipEpoch0(F, u, Iter) ==
    [it \in 1..(Iter - 1) |-> SDiv(TraceProd(F[it + 1], u), R(COE_DIV))]

\* the coefficients of direction idx over the epochs 0..Iter-1
Coefficients(F, u, Iter) ==
    [it \in 1..Iter |-> SDiv(TraceProd(F[it], u), R(COE_DIV))]

\* one iteration of "for i in range(20)"
Direction ==
    /\ pc = "dirs"
    /\ i < NUM_DIRS
    /\ IF i >= an.beta_star.cols \/ i >= an.U.cols
       THEN /\ Abort(Raise("IndexError", 803))
            /\ UNCHANGED <<an, i>>
       ELSE LET u0     == Outer(an.beta_star, an.U, i)
                norm_u == SDiv(TraceGram(u0), R(NORM_DIV))
                u      == DivBy(u0, norm_u)
            IN  IF \E it \in 1..an.Iter : ~CanTraceProd(F_out[it], u)
                THEN /\ Abort(Raise("RuntimeError", 808))
                     /\ UNCHANGED <<an, i>>
                ELSE /\ an' = [an EXCEPT
                                 !.u = u, !.norm_u = norm_u,
                                 !.Coe = (i + 1 :> Coefficients(F_out, u, an.Iter)) @@ @]
                     /\ i' = i + 1
                     /\ UNCHANGED <<pc, err>>
    /\ UNCHANGED <<args, loaders, model, capt, evalv, epoch, b, metrics, hist>>

DirectionsDone ==
    /\ pc = "dirs"
    /\ i = NUM_DIRS
    /\ pc' = "plot_beta"
    /\ UNCHANGED <<args, err, loaders, model, capt, evalv, loopv, metrics, hist, an>>

Analysis == Svd \/ Project \/ Direction \/ DirectionsDone

\* the beta-5 and beta-20 plots read Coe[1..5] and Coe[1..20]
PlotBeta ==
    /\ pc = "plot_beta"
    /\ IF \E k \in 1..NUM_DIRS : k \notin DOMAIN an.Coe
       THEN /\ Abort(Raise("KeyError", 816))
            /\ UNCHANGED hist
       ELSE /\ hist' = Wrote(<<"beta-5", "beta-5.pdf", "beta-20", "beta-20.pdf">>)
            /\ pc' = "save"
            /\ UNCHANGED err
    /\ UNCHANGED <<args, loaders, model, capt, evalv, loopv, metrics, an>>

\* np.save(data_dict.npy), np.save(coe.npy); return
Save ==
    /\ pc = "save"
    /\ hist' = Wrote(<<"data_dict.npy", "coe.npy">>)
    /\ pc' = "done"
    /\ UNCHANGED <<args, err, loaders, model, capt, evalv, loopv, metrics, an>>

Main == PlotMetrics \/ GradPlot \/ PlotBeta \/ Save

ModelTrain ==
    \/ LoadTrainData \/ LoadTestData \/ Info \/ LoadArchitecture \/ InitScale
    \/ InitBuffers \/ InitialTestBegin \/ InitialTestStep \/ InitialTestReturn
    \/ EpochBegin \/ TrainStep \/ TrainEpilogue \/ RegisterHook \/ EvalBegin
    \/ EvalStep \/ EvalEnd \/ CaptureBegin \/ CaptureStep \/ CaptureEnd
    \/ SchedulerStep \/ Return
    \/ ForwardRaises \/ JacobianRaises

Next == ModelTrain \/ Main \/ Analysis

Spec == Init /\ [][Next]_vars

(***************************************************************************)
(* The analysis as a function of (Phi, beta, F_out): specification SpecAn  *)
(* starts main() at the svd call on small concrete inputs.                 *)
(***************************************************************************)
\* the small size of an axis that is shorter than the 20 directions
SmallDim == 3

\* the longest epoch axis of an input F_out
MaxIter == 2

\* the largest number of classes of an input
MaxClasses == 2

AnRows == {SmallDim, NUM_DIRS + 1}

AnCols == {SmallDim, NUM_DIRS, NUM_DIRS + 1}

\* Phi with singular values r, r-1, ..., 1 on its diagonal
DiagPhi(n, d) ==
    Num(n, d, [r \in 1..n |-> [c \in 1..d |->
        IF r = c THEN Min(n, d) - c + 1 ELSE 0]])

\* beta with rows (j, j, ..., j) and column z zeroed (z = 0: none)
BetaInput(c, cols, z) ==
    Num(c, cols, [j \in 1..c |-> [k \in 1..cols |-> IF k = z THEN 0 ELSE j]])

\* the contents an input slice can have, in the order the slices of one
\* input F_out take them (starting anywhere, wrapping around)
FPatterns == <<"ramp", "aligned", "aligned2", "zero", "ones">>

PatternAt(start, it) == FPatterns[((start + it - 2) % Len(FPatterns)) + 1]

\* one slice of F_out; "aligned": the transpose of outer(beta[:, 0], e_1),
\* "aligned2": of outer(beta[:, 1], e_2)
FSlice(pat, n, c, bt) ==
    Num(n, c, [r \in 1..n |-> [j \in 1..c |->
        CASE pat = "zero"     -> 0
          [] pat = "ones"     -> 1
          [] pat = "aligned"  -> IF r = 1 THEN bt.m[j][1] ELSE 0
          [] pat = "aligned2" -> IF r = 2 THEN bt.m[j][2] ELSE 0
          [] OTHER            -> r + j]])

AnArgs == [model |-> "resnet18", data |-> "Cifar10", gradient |-> FALSE,
           num_epoch |-> 1, batch_size |-> 512]

AnInit ==
    /\ \E n \in AnRows, d \in AnCols, c \in 1..MaxClasses, extra \in {0, 1},
          z \in 0..SmallDim, len \in 1..MaxIter, start \in 1..Len(FPatterns) :
            /\ phi = DiagPhi(n, d)
            /\ beta = BetaInput(c, d + extra, z)
            /\ F_out = [it \in 1..len |->
                          FSlice(PatternAt(start, it), n, c, BetaInput(c, d + extra, z))]
    /\ args = AnArgs
    /\ pc = "svd"
    /\ err = NoErr
    /\ train_loader = NoLoader
    /\ val_loader = NoLoader
    /\ shape = NoShape
    /\ model = NoModel
    /\ handle = "unbound"
    /\ features = Unset
    /\ epoch = 0
    /\ b = 0
    /\ i = 0
    /\ f_out = Unset
    /\ init_f_out = Unset
    /\ FEATS = <<>>
    /\ metrics = NoMetrics
    /\ num_batch = 0
    /\ hist = NoHist
    /\ an = NoAn

SpecAn == AnInit /\ [][Analysis]_vars

(***************************************************************************)
(* Properties of model_train (specification Spec).                         *)
(***************************************************************************)
\* model_train has returned to main()
Returned ==
    \/ pc \in {"returned", "grad_plot", "svd", "project", "dirs", "plot_beta",
               "save", "done"}
    \/ pc = "error" /\ err.line > 647

NoRaise == err.exc = "none"

\* the outputs for the whole validation set, in loader order, computed with
\* the parameters after ver optimizer steps
Snapshot(ver) ==
    Tensor("sym", val_loader.n, shape.num_classes,
           <<Seg(0, val_loader.n, ver, "logits")>>, <<>>)

\* C1: when model_train returns, F has num_epoch + 1 slices; slice 0 is the
\* output of initial_test, computed before any optimizer step, and slice e is
\* the validation output computed after the training pass of epoch e.
C1_HistoryOfOutputs ==
    Returned =>
        /\ Len(F_out) = args.num_epoch + 1
        /\ F_out[1] = Snapshot(0)
        /\ \A e \in 1..args.num_epoch :
              F_out[e + 1] = Snapshot(e * LoaderLen(train_loader))

C1_Witness ==
    /\ pc = "returned"
    /\ args.num_epoch = MaxEpoch
    /\ F_out[1].kind = "sym"

\* the states between the registration of the hook and its removal
InCaptureWindow ==
    /\ pc \in {"eval_begin", "eval", "capture", "capture_loop"}
    /\ epoch = args.num_epoch - 1

\* C2: in a run in which no step raises, the capture hook is registered once,
\* after the last epoch's training pass and before its evaluation pass, and
\* removed once after that pass; outside that window no hook is installed;
\* Phi and beta are each built once, in the last epoch.
C2_HookScopedToLastEvaluation ==
    NoRaise =>
        /\ (model.hooks # {}) <=> InCaptureWindow
        /\ hist.hookRegs <= 1 /\ hist.hookRemoves <= hist.hookRegs
        /\ hist.hookRegs = 1 =>
              /\ hist.trainPasses = args.num_epoch
              /\ hist.evalPasses >= args.num_epoch - 1
        /\ (model.hooks # {} /\ pc \in {"eval_begin", "eval"}) =>
              hist.evalPasses = args.num_epoch - 1
        /\ hist.hookRemoves = 1 => hist.evalPasses = args.num_epoch
        /\ (hist.phiAssigns > 0 \/ hist.betaAssigns > 0) =>
              /\ epoch >= args.num_epoch - 1
              /\ hist.evalPasses = args.num_epoch
        /\ hist.phiAssigns <= 1 /\ hist.betaAssigns <= 1
        /\ Returned =>
              /\ hist.hookRegs = 1 /\ hist.hookRemoves = 1
              /\ hist.phiAssigns = 1 /\ hist.betaAssigns = 1
              /\ model.hooks = {}

C2_Witness ==
    /\ pc = "returned"
    /\ args.num_epoch = MaxEpoch
    /\ hist.hookRegs = 1
    /\ hist.hookRemoves = 1
    /\ phi.rows = F_ROWS

\* C3: the hook is removed on every exit path: no terminal state, reached by
\* returning or by an exception, leaves a hook installed on the model.
C3_HookRemovedOnEveryExit ==
    pc \in {"error", "done"} => model.hooks = {}

FallbackLayer(arch) ==
    CASE arch = "resnet18" -> "avgpool"
      [] arch = "vit"      -> "encoder"
      [] arch = "fc-relu"  -> "4"
      [] OTHER             -> "?"

NamedData == {"Mnist", "Cifar10", "Cifar100", "Imagenet"}

Unhandled == args.data \notin NamedData \/ args.model \notin BuiltArchs

\* C9: with a dataset or model identifier that is not handled, the run never
\* gets past configuration: no optimizer step, no evaluation pass (not even
\* the epoch-0 one), no training epoch, and it can only end in an error.
C9_UnknownIdAbortsBeforeTraining ==
    Unhandled =>
        /\ pc \in {"load_train", "load_test", "info", "load_arch", "init_scale", "error"}
        /\ pc = "error" => err.exc # "none" /\ err.line < 488
        /\ pc # "error" => ENABLED Next
        /\ model.ver = 0
        /\ hist.trainPasses = 0 /\ hist.evalPasses = 0
        /\ f_out.kind = "unset" /\ init_f_out.kind = "unset"
        /\ F_out = <<>>

C9_Witness ==
    /\ args.model = "lenet"
    /\ args.data = "Cifar10"
    /\ pc = "error"
    /\ err = Raise("AttributeError", 447)

\* C10: for each of the four named datasets both loader calls return: the
\* run does not end inside load_train_data or load_test_data, and past them
\* val_loader iterates the held-out split and train_loader the training one.
C10_NamedDatasetsLoad ==
    args.data \in NamedData =>
        /\ ~(pc = "error" /\ err.line \in 236..418)
        /\ pc \notin {"load_train", "load_test", "error"} =>
              /\ val_loader.bound /\ val_loader.split = "test"
              /\ val_loader.data = args.data
              /\ train_loader.bound /\ train_loader.split = "train"

(***************************************************************************)
(* Properties of the analysis (specification SpecAn).                      *)
(***************************************************************************)
\* For the inputs of AnInit, U[:, k] and V[:, k] are unit vectors e_k, so
\* u_k = beta[:, k] (x) e_k and the two divisors cancel: the coefficient of
\* direction k at slice it is <F_out[it][k, :], beta[:, k]> / |beta[:, k]|^2,
\* and NaN when beta[:, k] = 0.
ClosedForm(k, it) ==
    LET num == SumTo([j \in 1..beta.rows |-> F_out[it].m[k][j] * beta.m[j][k]], beta.rows)
        den == SumTo([j \in 1..beta.rows |-> beta.m[j][k] * beta.m[j][k]], beta.rows)
    IN  IF den = 0 THEN NaN ELSE Rat(num, den)

\* C4: the table the loop builds has the keys 1..20, and each key maps to
\* one scalar per slice of F_out, ordered by epoch index: the it-th is the
\* coefficient of slice it.
C4_TableShape ==
    pc = "plot_beta" =>
        /\ DOMAIN an.Coe = 1..NUM_DIRS
        /\ \A k \in 1..NUM_DIRS :
              /\ Len(an.Coe[k]) = Len(F_out)
              /\ DOMAIN an.Coe[k] = 1..Len(F_out)
        /\ \A k \in 1..NUM_DIRS : \A it \in 1..Len(F_out) :
              an.Coe[k][it] = ClosedForm(k, it)

C4_Witness ==
    /\ pc = "plot_beta"
    /\ Len(F_out) = MaxIter
    /\ Len(an.Coe[1]) = MaxIter

\* the analysis has ended: the loop is done or an exception left main()
AnEnded == pc \in {"plot_beta", "error"}

\* C5: the analysis computes K = min(20, columns of U and V) directions:
\* when beta fits Phi it completes with a table of exactly K keys.
C5_MinOfTwentyAndRank ==
    (AnEnded /\ beta.cols = phi.cols) =>
        /\ pc = "plot_beta"
        /\ DOMAIN an.Coe = 1..Min(NUM_DIRS, SvdRank(phi))

\* C6: when beta's columns differ from Phi's, the dimension mismatch is
\* reported before any svd: no run performs the svd and then fails on the
\* mismatch.
C6_MismatchBeforeSvd ==
    (beta.cols # phi.cols /\ pc = "error") => hist.svdCalls = 0

HasNaN(seq) == \E k \in DOMAIN seq : seq[k].k \in {"nan", "pinf", "ninf"}

\* C7: a direction whose normaliser is zero is not divided by it: a
\* DegenerateDirection condition is surfaced for it and its coefficients are
\* not the result of x / 0.  (Inputs with at least 20 columns, so that the
\* loop is not cut short by a missing column.)
C7_DegenerateDirectionGuarded ==
    (/\ pc \in {"dirs", "plot_beta"}
     /\ i > 0
     /\ SvdRank(phi) >= NUM_DIRS
     /\ IsZero(an.norm_u)) =>
        /\ err.exc = "DegenerateDirection"
        /\ ~HasNaN(an.Coe[i])

(***************************************************************************)
(* Properties of main() after model_train (specification Spec).            *)
(***************************************************************************)
\* the names main() has written into the run directory
Files == {hist.files[k] : k \in DOMAIN hist.files}

\* everything a run that gets to the end of main() has written, in order
AllOutputs ==
    <<"train_loss", "train_loss.pdf", "train_acc", "train_acc.pdf",
      "test_acc", "test_acc.pdf", "beta-5", "beta-5.pdf", "beta-20",
      "beta-20.pdf", "data_dict.npy", "coe.npy">>

\* C11: a run whose training completed, with --gradient or without, does not
\* end in an exception after model_train returned: it gets to the end of
\* main(), and there data_dict.npy and coe.npy have been saved after the
\* loss, accuracy, beta-5 and beta-20 plots.  (Runs of 'vit', which end on
\* the column mismatch of C6, are left aside.)
C11_CompletedRunSaves ==
    (Returned /\ args.model # "vit") =>
        /\ pc # "error"
        /\ pc = "done" => hist.files = AllOutputs

\* the serialized tensors of a run: model state, beta, Phi, F_out
TensorFiles == {"_state", "beta", "Phi", "F_out"}

\* C12: a run that gets to the end of main() has written the model
\* parameters, beta, Phi and F_out into the run directory, next to the
\* metric histories.
C12_TensorsSerialized ==
    pc = "done" =>
        /\ TensorFiles \subseteq Files
        /\ "data_dict.npy" \in Files

(***************************************************************************)
(* Frame and ordering properties of model_train (specification Spec).      *)
(***************************************************************************)
\* C13 as stated: once F_out has a slice, no step changes it; a step leaves
\* F_out as it is or adds one slice after the last.
C13_AppendOnly ==
    [][Len(F_out) > 0 =>
          /\ Len(F_out') \in {Len(F_out), Len(F_out) + 1}
          /\ \A e \in 1..Len(F_out) : F_out'[e] = F_out[e]]_vars

\* C13, amended: the slices of index 1 and up are never changed once they
\* exist, and a step adds at most one slice after the last; slice 0 is the
\* zero block of the allocation until the statement before the return
\* writes the initial_test output over it, once, and no other step changes
\* it.
C13_AppendOnlyPastSlice0 ==
    [][Len(F_out) > 0 =>
          /\ Len(F_out') \in {Len(F_out), Len(F_out) + 1}
          /\ \A e \in 2..Len(F_out) : F_out'[e] = F_out[e]
          /\ F_out'[1] # F_out[1] =>
                /\ pc = "finish" /\ pc' = "returned"
                /\ F_out[1] = Zeros(F_ROWS, shape.num_classes)
                /\ F_out'[1] = init_f_out
                /\ Len(F_out') = Len(F_out)]_vars

C13_Witness ==
    /\ pc = "returned"
    /\ Len(F_out) = MaxEpoch + 1
    /\ F_out[1] = init_f_out
    /\ F_out[1] # Zeros(F_ROWS, shape.num_classes)

\* the validation examples the rows of a tensor stand for, as ranges of
\* positions in the loader's order
RowsOf(t) == [k \in DOMAIN t.segs |-> <<t.segs[k].lo, t.segs[k].hi>>]

\* the whole validation set, first example to last
AllRows == <<<<0, val_loader.n>>>>

\* C14: the validation loader is not shuffled; the last evaluation pass
\* leaves one capture per validation batch, the k-th holding the rows of the
\* k-th batch; and when model_train has returned, row k of Phi and row k of
\* every slice of F_out, slice 0 included, stand for the k-th validation
\* example: Phi and the slices have the same number of rows, in loader order.
C14_RowsAligned ==
    /\ val_loader.bound => ~val_loader.shuffle
    /\ (pc \in {"capture", "capture_loop"} /\ IsLastEpoch(epoch, args.num_epoch)) =>
          /\ Len(FEATS) = LoaderLen(val_loader)
          /\ num_batch = LoaderLen(val_loader)
          /\ \A k \in 1..Len(FEATS) :
                FEATS[k].segs = <<Seg(BatchLo(val_loader, k - 1), BatchHi(val_loader, k - 1),
                                      model.ver, handle)>>
    /\ Returned =>
          /\ phi.rows = val_loader.n
          /\ RowsOf(phi) = AllRows
          /\ phi.segs[1].ver = model.ver
          /\ \A e \in 1..Len(F_out) :
                /\ F_out[e].rows = phi.rows
                /\ RowsOf(F_out[e]) = RowsOf(phi)

C14_Witness ==
    /\ pc = "returned"
    /\ LoaderLen(val_loader) > 1
    /\ Len(FEATS) = LoaderLen(val_loader)
    /\ RowsOf(phi) = AllRows
    /\ RowsOf(F_out[1]) = AllRows

\* the run is in the analysis of main(), or ended in it
InAnalyzer ==
    \/ pc \in {"svd", "project", "dirs", "plot_beta", "save", "done"}
    \/ pc = "error" /\ err.line >= 797

\* C15: in a run that gets to the analysis, the number the normaliser and
\* the coefficient are divided by is num_examples: the number of validation
\* examples, which is the number of rows of Phi and of each slice of F_out
\* (and so not num_examples - 1).
C15_DivisorIsNumExamples ==
    InAnalyzer =>
        /\ phi.rows = val_loader.n
        /\ \A e \in 1..Len(F_out) : F_out[e].rows = phi.rows
        /\ NORM_DIV = phi.rows
        /\ COE_DIV = phi.rows
        /\ NORM_DIV # phi.rows - 1 /\ COE_DIV # phi.rows - 1

C15_Witness ==
    /\ pc = "dirs"
    /\ i > 0
    /\ an.norm_u.k = "sym"
    /\ phi.rows = val_loader.n
    /\ val_loader.n > 0

(***************************************************************************)
(* Numerical properties of the analysis (specification SpecAn).            *)
(***************************************************************************)
Transpose(T) ==
    Num(T.cols, T.rows, [r \in 1..T.cols |-> [c \in 1..T.rows |-> T.m[c][r]]])

\* the outer product of direction idx (0-based) before it is normalised
RawDirection(idx) == Outer(an.beta_star, an.U, idx)

Normaliser(idx) == SDiv(TraceGram(RawDirection(idx)), R(NORM_DIV))

IsZeroMatrix(T) == \A r \in 1..T.rows : \A c \in 1..T.cols : T.m[r][c] = 0

\* slice it of F_out is, transposed, the raw outer product of direction k
Aligned(k, it) == F_out[it] = Transpose(RawDirection(k - 1))

\* C16: for the direction the loop has just computed (each of them in
\* turn), if its normaliser is not zero, and for every slice of F_out: if
\* the slice is the transpose of the direction's raw outer product the
\* coefficient is exactly 1, and if the slice is the zero matrix the
\* coefficient is exactly 0.
C16_FullAlignmentIsOne ==
    (pc \in {"dirs", "plot_beta"} /\ i > 0) =>
        \A it \in 1..Len(F_out) :
            ~IsZero(Normaliser(i - 1)) =>
                /\ Aligned(i, it) => an.Coe[i][it] = R(1)
                /\ IsZeroMatrix(F_out[it]) => an.Coe[i][it] = R(0)

C16_Witness ==
    /\ pc = "dirs"
    /\ i = 2
    /\ Len(F_out) = 2
    /\ ~IsZero(Normaliser(1))
    /\ Aligned(2, 1) /\ ~IsZeroMatrix(F_out[1])
    /\ an.Coe[2][1] = R(1)
    /\ IsZeroMatrix(F_out[2])
    /\ an.Coe[2][2] = R(0)

\* row r of the result is row p[r] of T
PermuteRows(T, p) == Num(T.rows, T.cols, [r \in 1..T.rows |-> T.m[p[r]]])

\* the permutations of the example axis 1..n that are applied: the
\* exchanges of two neighbours among the first SmallDim examples, and the
\* rotation of all n examples by one place
ExamplePerms(n) ==
    {[r \in 1..n |-> IF r = x THEN x + 1 ELSE IF r = x + 1 THEN x ELSE r] :
        x \in 1..(SmallDim - 1)}
        \cup {[r \in 1..n |-> (r % n) + 1]}

\* lines 803-809 for the direction of 0-based index idx, as a function of
\* beta_star, U and F_out: the coefficients of that direction over the slices
DirectionCoe(bs, U, F, idx) ==
    LET u0 == Outer(bs, U, idx)
        u  == DivBy(u0, SDiv(TraceGram(u0), R(NORM_DIV)))
    IN  Coefficients(F, u, Len(F))

\* C17: permuting the rows of Phi and the rows of every slice of F_out by
\* the same permutation of the examples leaves every coefficient as it is:
\* the svd of the permuted Phi has the rows of U permuted and the same V
\* (so the same beta_star), and each direction computed from the permuted U
\* and the permuted slices has the coefficients the run computed.
C17_PermutationInvariant ==
    /\ pc = "project" =>
          \A p \in ExamplePerms(phi.rows) :
              /\ SvdU(PermuteRows(phi, p)) = PermuteRows(an.U, p)
              /\ SvdV(PermuteRows(phi, p)) = an.V
    /\ (pc = "dirs" /\ i > 0) =>
          \A p \in ExamplePerms(phi.rows) :
              DirectionCoe(an.beta_star, PermuteRows(an.U, p),
                           [it \in 1..Len(F_out) |-> PermuteRows(F_out[it], p)], i - 1)
                  = an.Coe[i]

C17_Witness ==
    /\ pc = "dirs"
    /\ i = 2
    /\ phi.rows = NUM_DIRS + 1
    /\ an.Coe[2][1].k = "rat" /\ an.Coe[2][1].n # 0
    /\ \E p \in ExamplePerms(phi.rows) :
          /\ PermuteRows(phi, p) # phi
          /\ PermuteRows(F_out[1], p) # F_out[1]

(***************************************************************************)
(* Capture-layer selection and loop bookkeeping (specification Spec).      *)
(***************************************************************************)
\* the layer designated for an architecture load_architecture builds
DesignatedLayer(arch) ==
    CASE arch \in {"vgg11", "alexnet"} -> "classifier[5]"
      [] arch = "vit"                  -> "encoder.ln"
      [] OTHER                         -> SecondToLast(arch)

\* C18: for every identifier load_architecture builds, the hook is
\* registered on the designated layer: classifier[5] for 'vgg11' and
\* 'alexnet', encoder.ln for 'vit', the second-to-last top-level module for
\* the others.
C18_DesignatedLayerHooked ==
    (args.model \in BuiltArchs /\ hist.hookRegs > 0) =>
        handle = DesignatedLayer(model.arch)

\* the k-th entry of a metric list is the one appended in iteration k - 1
InEpochOrder(list) == \A k \in 1..Len(list) : list[k].epoch = k - 1

\* C19: at the end of iteration e of the epoch loop (the loop is about to
\* test for iteration e + 1), train_loss, train_acc and test_acc_ have e + 1
\* entries, F_out has e + 2 slices, grad_norm has e + 1 entries with
\* --gradient and none without, and scheduler.step() has been called e + 1
\* times; each call comes after the evaluation pass of its epoch.
C19_LoopBookkeeping ==
    /\ (pc = "epoch" /\ epoch > 0) =>
          /\ Len(metrics.train_loss) = epoch
          /\ Len(metrics.train_acc) = epoch
          /\ Len(metrics.test_acc_) = epoch
          /\ InEpochOrder(metrics.train_loss)
          /\ InEpochOrder(metrics.train_acc)
          /\ InEpochOrder(metrics.test_acc_)
          /\ Len(F_out) = epoch + 1
          /\ Len(metrics.grad_norm) = IF args.gradient THEN epoch ELSE 0
          /\ InEpochOrder(metrics.grad_norm)
          /\ hist.schedSteps = epoch
          /\ hist.evalPasses = epoch
          /\ hist.trainPasses = epoch
    /\ pc = "sched" =>
          /\ hist.schedSteps = epoch
          /\ hist.evalPasses = epoch + 1
    /\ hist.schedSteps <= hist.evalPasses

C19_Witness ==
    /\ pc = "epoch"
    /\ epoch = MaxEpoch
    /\ args.gradient
    /\ Len(metrics.grad_norm) = MaxEpoch
    /\ hist.schedSteps = MaxEpoch

====
